---------------------------- MODULE Spec2Model ----------------------------
(***************************************************************************)
(* A model of the core of chatgpt-gui:                                     *)
(*   - RateLimiter (src/rate_limiter.py): a token bucket with lazy refill, *)
(*     a lock, and a recursive sleep-then-retry wait;                      *)
(*   - ChatGPTHandler.count_tokens / manage_token_limit                    *)
(*     (src/chatgpt_handler.py): the context budget and its eviction loop; *)
(*   - ChatGPTHandler.call_openai_api (src/chatgpt_handler.py): the        *)
(*     tenacity retry wrapper around the remote call.                      *)
(*                                                                         *)
(* Time is counted in whole ticks.  The limiter never uses time.time()     *)
(* itself, only time.time() - last_refill, and its refill is capped at     *)
(* max_calls, so the model keeps that difference (elapsed), saturated at   *)
(* period: from there on every refill fills the bucket.                    *)
(***************************************************************************)
EXTENDS Integers, Sequences, FiniteSets, TLC

VARIABLES
    \* ---- RateLimiter (src/rate_limiter.py)
    max_calls,      \* self.max_calls
    period,         \* self.period, in ticks
    tokens,         \* self.tokens
    elapsed,        \* time.time() - self.last_refill, saturated at period
    lock,           \* the thread inside `with self.lock`, or NoThread
    pc,             \* per thread: where it is in acquire()
    depth,          \* per thread: nested acquire() activations on its stack
    slept,          \* per thread: ticks spent in time.sleep(wait_time)
    paced,          \* environment: calls arrive no faster than the refill rate
    since_call,     \* ticks since the last call of acquire() (when paced)
    \* ---- ChatGPTHandler session and budget (src/chatgpt_handler.py)
    messages,       \* self.session["messages"]
    max_context_tokens,
    max_response_tokens,
    session_changed,
    mtl_pc,         \* where manage_token_limit is: "idle", "loop", "done"
    before,         \* the messages when manage_token_limit was last called
    evicted,        \* messages removed by the current / last call
    mtl_calls,      \* completed calls of manage_token_limit
    \* ---- call_openai_api under @retry (src/chatgpt_handler.py)
    rstate,         \* "Idle", "Attempting", "Sleeping", "Succeeded", "Exhausted"
    attempt_number, \* tenacity's retry_state.attempt_number
    outcomes,       \* the outcome of every invocation of the wrapped function
    delays,         \* the backoff delays slept so far
    raised,         \* the error call_openai_api raised to its caller, or "none"
    response,       \* what call_openai_api returned, or "none"
    \* ---- observation of the limiter over an interval of time
    started,        \* calls of acquire() since construction (when counted)
    win_open,       \* an observation interval is open
    win_ticks,      \* its length so far, in ticks
    win_returns,    \* returns of acquire() inside it
    \* ---- ChatGPTHandler.send_message (src/chatgpt_handler.py)
    send_ix,        \* 0: no send in flight; else the step of send_message due
    send_input,     \* the tokens of the user input of the send in flight
    send_result,    \* what the last send_message returned, or "none"
    steps,          \* the steps the send in flight has taken, in order
    sends,          \* calls of send_message so far
    \* ---- ChatGPTGUI (src/gui.py)
    send_button,    \* the send button is enabled
    workers,        \* worker threads started and not yet finished
    worker_pc,      \* where the latest worker thread is in process_message
    queued,         \* update_send_button signals emitted and not yet delivered
    gui_input       \* the user input handed to the latest worker thread

limiterVars == <<max_calls, period, tokens, elapsed, lock, pc, depth, slept,
                 paced, since_call>>
budgetVars  == <<messages, max_context_tokens, max_response_tokens,
                 session_changed, mtl_pc, before, evicted, mtl_calls>>
retryVars   == <<rstate, attempt_number, outcomes, delays, raised, response>>
trackVars   == <<started, win_open, win_ticks, win_returns>>
sendVars    == <<send_ix, send_input, send_result, steps, sends>>
guiVars     == <<send_button, workers, worker_pc, queued, gui_input>>
vars        ==
    <<limiterVars, budgetVars, retryVars, trackVars, sendVars, guiVars>>

Min(a, b) == IF a <= b THEN a ELSE b
Max(a, b) == IF a >= b THEN a ELSE b

(***************************************************************************)
(* Bounds of the model.                                                    *)
(***************************************************************************)
NumThreads == 2       \* threads that call acquire()
MaxCalls == 2         \* max_calls ranges over 0..MaxCalls
MaxPeriod == 3        \* period ranges over 1..MaxPeriod ticks
RecursionLimit == 2   \* stands for the interpreter's recursion limit
MaxMsgs == 4          \* longest session handed to manage_token_limit
MaxManageCalls == 2   \* consecutive calls of manage_token_limit
MaxWindow == 3        \* longest observation interval, in ticks
MaxSends == 2         \* calls of send_message

Threads  == 1..NumThreads
NoThread == 0

(***************************************************************************)
(*                              RateLimiter                                *)
(***************************************************************************)

\* RateLimiter.__init__: any max_calls is accepted (0 included), the bucket
\* starts full and last_refill is the time of construction.
LimiterInit ==
    /\ max_calls \in 0..MaxCalls
    /\ period \in 1..MaxPeriod
    /\ tokens = max_calls
    /\ elapsed = 0
    /\ lock = NoThread
    /\ pc = [t \in Threads |-> "idle"]
    /\ depth = [t \in Threads |-> 0]
    /\ slept = [t \in Threads |-> 0]
    /\ since_call = period

\* A limiter nobody calls: the state of the limiter's variables in the
\* specifications of the other components.
LimiterQuiet ==
    /\ max_calls = 1
    /\ period = 2
    /\ tokens = 1
    /\ elapsed = 0
    /\ lock = NoThread
    /\ pc = [t \in Threads |-> "idle"]
    /\ depth = [t \in Threads |-> 0]
    /\ slept = [t \in Threads |-> 0]
    /\ paced = FALSE
    /\ since_call = 0

\* A refill on every call, whole token or not.
RefillDueAlways(el) == TRUE

\* refill_amount >= 1, with refill_amount = (elapsed / period) * max_calls
RefillDue(el) == el * max_calls >= period

\* int(refill_amount)
RefillTokens(el) == (el * max_calls) \div period

\* self.tokens = tokens + refill_tokens, without the cap
UncappedRefill(tok, el) == tok + RefillTokens(el)

\* self.tokens = min(self.max_calls, self.tokens + refill_tokens)
Refilled(tok, el) == Min(max_calls, tok + RefillTokens(el))

\* A sleep of half the wait time.
WaitOverEarly(t) == slept[t] * max_calls * 2 >= period

\* time.sleep(wait_time) is over: wait_time = period / max_calls has passed
WaitOver(t) == slept[t] * max_calls >= period

\* The calls of acquire() are spaced by at least period / max_calls: they
\* arrive at a rate of at most max_calls per period.
ArrivalAllowed == paced => since_call * max_calls >= period

\* A thread calls acquire().
Call(t) ==
    /\ pc[t] \in {"idle", "done", "raised"}
    /\ ArrivalAllowed
    /\ pc' = [pc EXCEPT ![t] = "lock"]
    /\ depth' = [depth EXCEPT ![t] = 1]
    /\ since_call' = IF paced THEN 0 ELSE since_call
    /\ UNCHANGED <<max_calls, period, tokens, elapsed, lock, slept, paced>>
    /\ UNCHANGED <<budgetVars, retryVars>>

\* `with self.lock:` is entered.
Lock(t) ==
    /\ pc[t] = "lock"
    /\ lock = NoThread
    /\ lock' = t
    /\ pc' = [pc EXCEPT ![t] = "refill"]
    /\ UNCHANGED <<max_calls, period, tokens, elapsed, depth, slept, paced,
                   since_call>>
    /\ UNCHANGED <<budgetVars, retryVars>>

\* A refill that leaves last_refill where it was.
ElapsedKept == elapsed

\* self.last_refill = current_time: nothing has elapsed since the refill
ElapsedAfterRefill == 0

\* Lines 32-40: read the time and refill lazily.
Refill(t) ==
    /\ pc[t] = "refill"
    /\ IF RefillDue(elapsed)
         THEN /\ tokens' = Refilled(tokens, elapsed)
              /\ elapsed' = ElapsedAfterRefill
         ELSE UNCHANGED <<tokens, elapsed>>
    /\ pc' = [pc EXCEPT ![t] = "check"]
    /\ UNCHANGED <<max_calls, period, lock, depth, slept, paced, since_call>>
    /\ UNCHANGED <<budgetVars, retryVars>>

\* A sleeper that kept the lock (the sleep inside the with block).
SleepHoldingLock(t) == t

\* The holder of the lock once the thread has left the with block on its way
\* to time.sleep: nobody.
LockWhileSleeping(t) == NoThread

\* Lines 42-49 and the end of the with block: take a token and return, or
\* compute wait_time (a division by max_calls) and leave the block to sleep.
Check(t) ==
    /\ pc[t] = "check"
    /\ IF tokens >= 1
         THEN /\ tokens' = tokens - 1
              /\ lock' = NoThread
              /\ pc' = [pc EXCEPT ![t] = "done"]
              /\ depth' = [depth EXCEPT ![t] = 0]
              /\ UNCHANGED slept
         ELSE IF max_calls = 0
           THEN \* period / 0: ZeroDivisionError leaves the with block
                /\ lock' = NoThread
                /\ pc' = [pc EXCEPT ![t] = "raised"]
                /\ depth' = [depth EXCEPT ![t] = 0]
                /\ UNCHANGED <<tokens, slept>>
           ELSE /\ lock' = LockWhileSleeping(t)
                /\ pc' = [pc EXCEPT ![t] = "sleep"]
                /\ slept' = [slept EXCEPT ![t] = 0]
                /\ UNCHANGED <<tokens, depth>>
    /\ UNCHANGED <<max_calls, period, elapsed, paced, since_call>>
    /\ UNCHANGED <<budgetVars, retryVars>>

\* Line 53: the sleep is over and the thread calls self.acquire() again, one
\* activation deeper; past the recursion limit the call raises RecursionError
\* through every activation.
Wake(t) ==
    /\ pc[t] = "sleep"
    /\ WaitOver(t)
    /\ IF depth[t] >= RecursionLimit
         THEN /\ pc' = [pc EXCEPT ![t] = "raised"]
              /\ depth' = [depth EXCEPT ![t] = 0]
         ELSE /\ pc' = [pc EXCEPT ![t] = "lock"]
              /\ depth' = [depth EXCEPT ![t] = depth[t] + 1]
    /\ slept' = [slept EXCEPT ![t] = 0]
    /\ UNCHANGED <<max_calls, period, tokens, elapsed, lock, paced, since_call>>
    /\ UNCHANGED <<budgetVars, retryVars>>

\* One tick of time passes.
Tick ==
    /\ elapsed' = Min(elapsed + 1, period)
    /\ slept' = [t \in Threads |->
                   IF pc[t] = "sleep" THEN Min(slept[t] + 1, period) ELSE slept[t]]
    /\ since_call' = IF paced THEN Min(since_call + 1, period) ELSE since_call
    /\ UNCHANGED <<max_calls, period, tokens, lock, pc, depth, paced>>
    /\ UNCHANGED <<budgetVars, retryVars>>

ThreadStep(t) == Refill(t) \/ Check(t) \/ Wake(t)

LimiterNext ==
    \/ \E t \in Threads : Call(t)
    \/ \E t \in Threads : Lock(t)
    \/ \E t \in Threads : Refill(t)
    \/ \E t \in Threads : Check(t)
    \/ \E t \in Threads : Wake(t)
    \/ Tick

(***************************************************************************)
(* The limiter observed: the same actions, with the calls counted and,    *)
(* while an observation interval is open, its ticks and the returns of     *)
(* acquire() counted.                                                      *)
(***************************************************************************)
TrackQuiet ==
    /\ started = 0
    /\ win_open = FALSE
    /\ win_ticks = 0
    /\ win_returns = 0

\* A call, counted.
CountedCall(t) ==
    /\ Call(t)
    /\ started' = started + 1
    /\ UNCHANGED <<win_open, win_ticks, win_returns>>

\* The end of a critical section; a return inside the interval is counted.
CountedCheck(t) ==
    /\ Check(t)
    /\ win_returns' = IF win_open /\ pc'[t] = "done"
                        THEN win_returns + 1 ELSE win_returns
    /\ UNCHANGED <<started, win_open, win_ticks>>

\* A tick; the open interval grows by it, up to MaxWindow.
CountedTick ==
    /\ win_open => win_ticks < MaxWindow
    /\ Tick
    /\ win_ticks' = IF win_open THEN win_ticks + 1 ELSE win_ticks
    /\ UNCHANGED <<started, win_open, win_returns>>

\* The observation interval begins.
OpenWindow ==
    /\ ~win_open
    /\ win_open' = TRUE
    /\ UNCHANGED <<started, win_ticks, win_returns>>
    /\ UNCHANGED <<limiterVars, budgetVars, retryVars>>

(***************************************************************************)
(*          ChatGPTHandler: count_tokens and manage_token_limit            *)
(*                                                                         *)
(* A message is [role, content, id]: content is the number of tokens the   *)
(* tokenizer reports for the message's text, id is the message's place in  *)
(* the order of arrival (it tells two equal messages apart and is not      *)
(* counted).                                                               *)
(***************************************************************************)
Roles == {"system", "user", "assistant"}
ContentSizes == {1, 6}
ContextBudgets == {10, 15, 20, 30, 40}
ResponseBudgets == {0, 5, 40}

tokens_per_message == 4
reply_priming == 2

\* len(self.encoding.encode(value)) for a role: each role name is one token
\* of the tokenizer.
EncodeLen(role) == 1

\* A name that costs the message more than the message is worth.
TokensPerNameLarge == 0 - 7

\* tokens_per_name: the adjustment for a message that carries a name
tokens_per_name == -1

\* The content of a message that is not text: self.encoding.encode(value)
\* raises on it.
NotText == -1
Malformed(m) == m.content = NotText

\* The inner loop of count_tokens over one message's items: role, content
\* and, when the message has one, name (its length in tokens).
MessageTokens(m) ==
    tokens_per_message + EncodeLen(m.role) + m.content
        + (IF "name" \in DOMAIN m THEN m.name + tokens_per_name ELSE 0)

RECURSIVE SumTokens(_)
SumTokens(msgs) ==
    IF msgs = <<>> THEN 0
    ELSE MessageTokens(Head(msgs)) + SumTokens(Tail(msgs))

\* count_tokens(messages): the sum over the messages plus the priming of the
\* reply; 0 when anything raised on the way (the except branch).
count_tokens(msgs) ==
    IF \E i \in 1..Len(msgs) : Malformed(msgs[i]) THEN 0
    ELSE SumTokens(msgs) + reply_priming

\* total_tokens <= self.max_context_tokens
WithinBudget(msgs) ==
    count_tokens(msgs) + max_response_tokens <= max_context_tokens

\* list.pop(1): the list without its second element
Pop1(msgs) == <<msgs[1]>> \o SubSeq(msgs, 3, Len(msgs))

\* An eviction that removes nothing.
EvictNothing(msgs) == msgs

\* self.session["messages"].pop(1)
Evict(msgs) == Pop1(msgs)

\* An eviction test that stops one message early.
CanEvictKeepingTwo(msgs) == Len(msgs) > 2

\* `if len(self.session["messages"]) > 1`
CanEvict(msgs) == Len(msgs) > 1

\* The loop runs its body once and returns (an `if` in place of `while`).
AfterEvictionReturn == "done"

\* After an eviction the `while True` loop goes round again.
AfterEviction == "loop"

\* The sessions handed to manage_token_limit: up to MaxMsgs messages, a
\* system message only in front, numbered in order of arrival.
SessionsOfLen(n) ==
    { [i \in 1..n |-> [role |-> r[i], content |-> c[i], id |-> i]] :
        r \in { f \in [1..n -> Roles] : \A i \in 2..n : f[i] # "system" },
        c \in [1..n -> ContentSizes] }

Sessions == UNION { SessionsOfLen(n) : n \in 0..MaxMsgs }

BudgetInit ==
    /\ messages \in Sessions
    /\ max_context_tokens \in ContextBudgets
    /\ max_response_tokens \in ResponseBudgets
    /\ session_changed = FALSE
    /\ mtl_pc = "idle"
    /\ before = <<>>
    /\ evicted = 0
    /\ mtl_calls = 0

BudgetQuiet ==
    /\ messages = <<>>
    /\ max_context_tokens = 40
    /\ max_response_tokens = 5
    /\ session_changed = FALSE
    /\ mtl_pc = "idle"
    /\ before = <<>>
    /\ evicted = 0
    /\ mtl_calls = 0

\* manage_token_limit() is called.
ManageTokenLimit ==
    /\ mtl_pc \in {"idle", "done"}
    /\ mtl_calls < MaxManageCalls
    /\ mtl_pc' = "loop"
    /\ before' = messages
    /\ evicted' = 0
    /\ UNCHANGED <<messages, max_context_tokens, max_response_tokens,
                   session_changed, mtl_calls>>
    /\ UNCHANGED <<limiterVars, retryVars>>

\* A loop that raises when nothing more can be removed.
UnenforceableRaises == "raised"

\* logging.warning(...); break: the call ends as any other
Unenforceable == "done"

\* What manage_token_limit hands back to its caller: it has no return
\* statement, so None, written here as the empty tuple.
ManageReturn(msgs, ev) == <<>>

\* One iteration of the `while True` loop (lines 157-169).
LoopStep ==
    /\ mtl_pc = "loop"
    /\ IF WithinBudget(messages)
         THEN \* break: the budget is met
              /\ mtl_pc' = "done"
              /\ mtl_calls' = mtl_calls + 1
              /\ UNCHANGED <<messages, session_changed, evicted>>
         ELSE IF CanEvict(messages)
           THEN /\ messages' = Evict(messages)
                /\ session_changed' = TRUE
                /\ evicted' = evicted + 1
                /\ mtl_pc' = AfterEviction
                /\ mtl_calls' = IF AfterEviction = "done"
                                  THEN mtl_calls + 1 ELSE mtl_calls
           ELSE \* break with the warning: nothing more can be removed
                /\ mtl_pc' = Unenforceable
                /\ mtl_calls' = mtl_calls + 1
                /\ UNCHANGED <<messages, session_changed, evicted>>
    /\ UNCHANGED <<max_context_tokens, max_response_tokens, before>>
    /\ UNCHANGED <<limiterVars, retryVars>>

\* The messages a session can be given: by send_message (user, assistant)
\* or from a loaded session, where a message may carry a name or a content
\* that is not text.
NameSizes == {0}
CountedMessages ==
    LET plain == [role : {"user", "assistant"}, content : ContentSizes \cup {NotText}]
        named == [role : {"user", "assistant"}, content : ContentSizes \cup {NotText},
                  name : NameSizes]
    IN  plain \cup named

\* self.session["messages"].append(message)
AppendMessage(m) ==
    /\ mtl_pc # "loop"
    /\ messages' = Append(messages, m)
    /\ session_changed' = TRUE
    /\ UNCHANGED <<max_context_tokens, max_response_tokens, mtl_pc, before,
                   evicted, mtl_calls>>
    /\ UNCHANGED <<limiterVars, retryVars>>

BudgetNext == ManageTokenLimit \/ LoopStep

(***************************************************************************)
(*        ChatGPTHandler.call_openai_api under tenacity's @retry           *)
(*                                                                         *)
(* An outcome is what one invocation of the wrapped function does: "ok",   *)
(* or the class of the exception it raises.  Every openai.error class      *)
(* derives from OpenAIError directly, so retry_if_exception_type matches   *)
(* exactly the five classes it lists.                                      *)
(***************************************************************************)
RetriedErrors ==
    {"APIError", "Timeout", "TryAgain", "ServiceUnavailableError",
     "RateLimitError"}
OtherErrors ==
    {"AuthenticationError", "InvalidRequestError", "APIConnectionError",
     "Exception"}
Outcomes == {"ok"} \cup RetriedErrors \cup OtherErrors

MaxAttempts == 5      \* stop_after_attempt(5)
WaitMultiplier == 1   \* wait_exponential(multiplier=1, ...)
WaitMin == 4          \* wait_exponential(..., min=4, ...)
WaitMax == 60         \* wait_exponential(..., max=60)

RECURSIVE Pow2(_)
Pow2(n) == IF n <= 0 THEN 1 ELSE 2 * Pow2(n - 1)

\* A classifier that forgets the remote side's rate limit.
RetryIfWithoutRateLimit(err) == err \in RetriedErrors \ {"RateLimitError"}

\* A classifier that retries whatever fails.
RetryIfAnything(err) == err # "ok"

\* retry=retry_if_exception_type((APIError, Timeout, TryAgain,
\*                                ServiceUnavailableError, RateLimitError))
RetryIf(err) == err \in RetriedErrors

\* A stop test that is one attempt late.
StopAfterAttemptLate(n) == n > MaxAttempts

\* stop=stop_after_attempt(5)
StopAfterAttempt(n) == n >= MaxAttempts

\* What tenacity raises without reraise=True: its own RetryError wrapper.
RaiseRetryError(err) == "RetryError"

\* reraise=True: when the attempts are used up, the exception of the last
\* attempt is raised as it is.
Reraise(err) == err

\* The exponential wait without its lower and upper limits.
WaitUnclamped(n) == WaitMultiplier * Pow2(n - 1)

\* wait=wait_exponential(multiplier=1, min=4, max=60):
\* max(min, min(multiplier * 2^(attempt_number - 1), max))
WaitExponential(n) ==
    Max(WaitMin, Min(WaitMultiplier * Pow2(n - 1), WaitMax))

RetryInit ==
    /\ rstate = "Idle"
    /\ attempt_number = 0
    /\ outcomes = <<>>
    /\ delays = <<>>
    /\ raised = "none"
    /\ response = "none"

\* call_openai_api() is called: tenacity starts with attempt 1.
CallOpenaiApi ==
    /\ rstate \in {"Idle", "Succeeded", "Exhausted"}
    /\ rstate' = "Attempting"
    /\ attempt_number' = 1
    /\ outcomes' = <<>>
    /\ delays' = <<>>
    /\ raised' = "none"
    /\ response' = "none"
    /\ UNCHANGED <<limiterVars, budgetVars>>

\* One attempt: the wrapped function is invoked and tenacity decides.  On
\* success the response is returned; an error the retry predicate rejects
\* is raised as it is; a retried error on the last attempt is re-raised
\* (reraise=True); otherwise the thread sleeps the backoff delay and the
\* next attempt begins.
Attempt(o) ==
    /\ rstate = "Attempting"
    /\ outcomes' = Append(outcomes, o)
    /\ IF o = "ok"
         THEN /\ rstate' = "Succeeded"
              /\ response' = "response"
              /\ UNCHANGED <<attempt_number, delays, raised>>
         ELSE IF ~RetryIf(o)
           THEN /\ rstate' = "Exhausted"
                /\ raised' = o
                /\ UNCHANGED <<attempt_number, delays, response>>
         ELSE IF StopAfterAttempt(attempt_number)
           THEN /\ rstate' = "Exhausted"
                /\ raised' = Reraise(o)
                /\ UNCHANGED <<attempt_number, delays, response>>
           ELSE /\ delays' = Append(delays, WaitExponential(attempt_number))
                /\ attempt_number' = attempt_number + 1
                /\ UNCHANGED <<rstate, raised, response>>
    /\ UNCHANGED <<limiterVars, budgetVars>>

RetryNext == CallOpenaiApi \/ \E o \in Outcomes : Attempt(o)

(***************************************************************************)
(*                     ChatGPTHandler.send_message                         *)
(***************************************************************************)
\* No send_message in flight.
SendQuiet ==
    /\ send_ix = 0
    /\ send_input = 0
    /\ send_result = "none"
    /\ steps = <<>>
    /\ sends = 0

\* The thread that runs send_message: the GUI starts one per message and
\* keeps the send button disabled until it is done.
Sender == 1

\* A send that appends and trims before it asks the limiter.
SendStepsAppendFirst ==
    <<"append_user", "trim", "acquire", "remote", "append_assistant">>

\* A send that asks the limiter again before the remote call.
SendStepsAcquireTwice ==
    <<"acquire", "append_user", "trim", "acquire", "remote", "append_assistant">>

\* The statements of send_message after the input check, in program order
\* (lines 254, 257, 262, 265, 272).
SendSteps ==
    <<"acquire", "append_user", "trim", "remote", "append_assistant">>

\* The statement the send in flight is at.
Step == IF send_ix = 0 THEN "none" ELSE SendSteps[send_ix]

\* What the remote side answers in the sends modelled.
SendOutcomes == {"ok", "RateLimitError", "AuthenticationError"}

\* Lines 249-251: send_message(user_input); an empty input is answered with
\* a warning and nothing else happens.
SendMessage(input) ==
    /\ send_ix = 0
    /\ sends < MaxSends
    /\ sends' = sends + 1
    /\ send_input' = input
    /\ steps' = <<>>
    /\ IF input = 0
         THEN send_result' = "invalid input" /\ send_ix' = 0
         ELSE send_result' = "none" /\ send_ix' = 1
    /\ UNCHANGED <<limiterVars, budgetVars, retryVars>>

\* self.rate_limiter.acquire() is called.
SendAcquire ==
    /\ Step = "acquire"
    /\ Call(Sender)
    /\ steps' = Append(steps, "acquire")
    /\ UNCHANGED <<send_ix, send_input, send_result, sends>>

\* A step of the sender inside acquire().  When acquire() returns the send
\* goes on; when it raises, the exception leaves send_message, which calls
\* it outside its try block.
InAcquireStep(A) ==
    /\ Step = "acquire"
    /\ A
    /\ IF pc'[Sender] = "done"
         THEN send_ix' = send_ix + 1 /\ UNCHANGED send_result
         ELSE IF pc'[Sender] = "raised"
           THEN send_ix' = 0 /\ send_result' = "raised"
           ELSE UNCHANGED <<send_ix, send_result>>
    /\ UNCHANGED <<send_input, steps, sends>>

\* Time passes.
SendTick == Tick /\ UNCHANGED sendVars

\* self.session["messages"].append({"role": "user", "content": user_input})
SendAppendUser ==
    /\ Step = "append_user"
    /\ AppendMessage([role |-> "user", content |-> send_input])
    /\ steps' = Append(steps, "append_user")
    /\ send_ix' = send_ix + 1
    /\ UNCHANGED <<send_input, send_result, sends>>

\* self.manage_token_limit() is called.
SendTrim ==
    /\ Step = "trim"
    /\ ManageTokenLimit
    /\ steps' = Append(steps, "trim")
    /\ UNCHANGED <<send_ix, send_input, send_result, sends>>

\* An iteration of its loop; when the call ends the send goes on.
SendTrimLoop ==
    /\ Step = "trim"
    /\ LoopStep
    /\ IF mtl_pc' = "done"
         THEN send_ix' = send_ix + 1 /\ UNCHANGED send_result
         ELSE IF mtl_pc' = "raised"
           THEN send_ix' = 0 /\ send_result' = "raised"
           ELSE UNCHANGED <<send_ix, send_result>>
    /\ UNCHANGED <<send_input, steps, sends>>

\* response = self.call_openai_api()
SendRemote ==
    /\ Step = "remote"
    /\ CallOpenaiApi
    /\ steps' = Append(steps, "remote")
    /\ UNCHANGED <<send_ix, send_input, send_result, sends>>

\* An attempt of the call.  A response lets the send go on; an error that
\* leaves call_openai_api is caught (lines 283-294) and its text returned.
SendAttempt(o) ==
    /\ Step = "remote"
    /\ Attempt(o)
    /\ IF rstate' = "Succeeded"
         THEN send_ix' = send_ix + 1 /\ UNCHANGED send_result
         ELSE IF rstate' = "Exhausted"
           THEN send_ix' = 0 /\ send_result' = "error"
           ELSE UNCHANGED <<send_ix, send_result>>
    /\ UNCHANGED <<send_input, steps, sends>>

\* Lines 267-281: a response with a choice is appended as the assistant's
\* message and returned; one without is answered with a warning.
SendAppendAssistant ==
    /\ Step = "append_assistant"
    /\ \E choices \in BOOLEAN, answer \in ContentSizes :
         IF choices
           THEN /\ AppendMessage([role |-> "assistant", content |-> answer])
                /\ steps' = Append(steps, "append_assistant")
                /\ send_result' = "answer"
           ELSE /\ send_result' = "no response"
                /\ UNCHANGED <<steps, limiterVars, budgetVars, retryVars>>
    /\ send_ix' = 0
    /\ UNCHANGED <<send_input, sends>>

\* A new session that keeps the messages of the old one.
NewSessionKeepingOld(prompt) ==
    messages \o (IF prompt THEN <<[role |-> "system", content |-> 1]>> ELSE <<>>)

\* self.session = {"messages": []}, then the system prompt if one is given
NewSession(prompt) ==
    IF prompt THEN <<[role |-> "system", content |-> 1]>> ELSE <<>>

\* start_new_session(session_name, system_prompt), between two sends.  Its
\* save_session() clears session_changed unless writing the file fails.
StartNewSession(prompt) ==
    /\ send_ix = 0
    /\ mtl_pc # "loop"
    /\ messages' = NewSession(prompt)
    /\ session_changed' \in BOOLEAN
    /\ UNCHANGED <<max_context_tokens, max_response_tokens, mtl_pc, before,
                   evicted, mtl_calls>>
    /\ UNCHANGED <<limiterVars, retryVars, sendVars>>

SendNext ==
    \/ \E input \in {0} \cup ContentSizes : SendMessage(input)
    \/ SendAcquire
    \/ InAcquireStep(Lock(Sender))
    \/ InAcquireStep(Refill(Sender))
    \/ InAcquireStep(Check(Sender))
    \/ InAcquireStep(Wake(Sender))
    \/ SendTick
    \/ SendAppendUser
    \/ SendTrim
    \/ SendTrimLoop
    \/ SendRemote
    \/ \E o \in SendOutcomes : SendAttempt(o)
    \/ SendAppendAssistant

\* A handler with a new session, with or without a system prompt, and a
\* context budget that the first message exceeds (10) or a later one (30).
SendInit ==
    /\ LimiterQuiet /\ RetryInit /\ TrackQuiet /\ SendQuiet
    /\ messages \in {<<>>, <<[role |-> "system", content |-> 1]>>}
    /\ max_context_tokens \in {10, 30}
    /\ max_response_tokens = 5
    /\ session_changed = TRUE
    /\ mtl_pc = "idle"
    /\ before = <<>>
    /\ evicted = 0
    /\ mtl_calls = 0

(***************************************************************************)
(*                     ChatGPTGUI: the send button                         *)
(***************************************************************************)
\* The window as built: the button enabled, no worker thread.
GuiQuiet ==
    /\ send_button = TRUE
    /\ workers = 0
    /\ worker_pc = "idle"
    /\ queued = 0
    /\ gui_input = 0

\* A click that leaves the button enabled.
SetEnabledStays == TRUE

\* self.send_button.setEnabled(False)
SetEnabledOnClick == FALSE

\* ChatGPTGUI.send_message, the slot of send_button.clicked: Qt emits
\* clicked only for an enabled button.  An input that is empty after
\* strip() is dropped; otherwise the button is disabled and a worker thread
\* is started on process_message.
GuiSendMessage(input) ==
    /\ send_button
    /\ sends < MaxSends
    /\ IF input = 0
         THEN UNCHANGED guiVars
         ELSE /\ send_button' = SetEnabledOnClick
              /\ workers' = workers + 1
              /\ worker_pc' = "start"
              /\ gui_input' = input
              /\ UNCHANGED queued
    /\ UNCHANGED <<limiterVars, budgetVars, retryVars, sendVars>>

\* process_message: the worker calls self.chatgpt.send_message(user_input).
ProcessMessage ==
    /\ worker_pc = "start"
    /\ SendMessage(gui_input)
    /\ worker_pc' = "sending"
    /\ UNCHANGED <<send_button, workers, queued, gui_input>>

\* process_message, finally: send_message has returned or raised; the
\* worker emits update_send_button_signal(True, "Send") and ends.
ProcessMessageFinally ==
    /\ worker_pc = "sending"
    /\ send_ix = 0
    /\ queued' = queued + 1
    /\ workers' = workers - 1
    /\ worker_pc' = "idle"
    /\ UNCHANGED <<send_button, gui_input>>
    /\ UNCHANGED <<limiterVars, budgetVars, retryVars, sendVars>>

\* update_send_button, the slot of the queued signal, on the GUI thread.
UpdateSendButton ==
    /\ queued > 0
    /\ queued' = queued - 1
    /\ send_button' = TRUE
    /\ UNCHANGED <<workers, worker_pc, gui_input>>
    /\ UNCHANGED <<limiterVars, budgetVars, retryVars, sendVars>>

GuiNext ==
    \/ \E input \in {0} \cup ContentSizes : GuiSendMessage(input)
    \/ ProcessMessage
    \/ send_ix > 0 /\ SendNext /\ UNCHANGED guiVars
    \/ SendTick /\ UNCHANGED guiVars
    \/ ProcessMessageFinally
    \/ UpdateSendButton

(***************************************************************************)
(*                            Specifications                               *)
(***************************************************************************)

\* The rate limiter under any number of calls from NumThreads threads.
Init ==
    LimiterInit /\ paced = FALSE /\ BudgetQuiet /\ RetryInit /\ TrackQuiet
        /\ SendQuiet /\ GuiQuiet
Next == LimiterNext /\ UNCHANGED <<trackVars, sendVars, guiVars>>
Spec == Init /\ [][Next]_vars

\* The rate limiter under calls that arrive no faster than it refills, fair
\* scheduling of every thread (and a fair lock) and advancing time.
FairInit ==
    LimiterInit /\ paced = TRUE /\ BudgetQuiet /\ RetryInit /\ TrackQuiet
        /\ SendQuiet /\ GuiQuiet
FairSpec ==
    /\ FairInit
    /\ [][Next]_vars
    /\ WF_vars(Tick /\ UNCHANGED <<trackVars, sendVars, guiVars>>)
    /\ \A t \in Threads :
         /\ SF_vars(Lock(t) /\ UNCHANGED <<trackVars, sendVars, guiVars>>)
         /\ WF_vars(ThreadStep(t) /\ UNCHANGED <<trackVars, sendVars, guiVars>>)

\* The limiter from its construction, under at most max_calls + 1 calls in
\* all, with the time since construction counted.
BurstInit ==
    /\ LimiterInit /\ paced = FALSE /\ BudgetQuiet /\ RetryInit /\ SendQuiet
    /\ GuiQuiet
    /\ started = 0
    /\ win_open = TRUE
    /\ win_ticks = 0
    /\ win_returns = 0
BurstNext ==
    /\ \/ \E t \in Threads : started <= max_calls /\ CountedCall(t)
       \/ \E t \in Threads : Lock(t) /\ UNCHANGED trackVars
       \/ \E t \in Threads : Refill(t) /\ UNCHANGED trackVars
       \/ \E t \in Threads : CountedCheck(t)
       \/ \E t \in Threads : Wake(t) /\ UNCHANGED trackVars
       \/ CountedTick
    /\ UNCHANGED <<sendVars, guiVars>>
BurstSpec == BurstInit /\ [][BurstNext]_vars

\* manage_token_limit on every session and budget within the bounds.
\* The limiter observed over an interval that opens at any moment and during
\* which some thread is inside acquire() at all times.
Pressure == \E t \in Threads : pc[t] \in {"lock", "refill", "check", "sleep"}
WindowInit ==
    LimiterInit /\ paced = FALSE /\ BudgetQuiet /\ RetryInit /\ TrackQuiet
        /\ SendQuiet /\ GuiQuiet
WindowNext ==
    /\ \/ \E t \in Threads : Call(t) /\ UNCHANGED trackVars
       \/ \E t \in Threads : Lock(t) /\ UNCHANGED trackVars
       \/ \E t \in Threads : Refill(t) /\ UNCHANGED trackVars
       \/ \E t \in Threads : CountedCheck(t)
       \/ \E t \in Threads : Wake(t) /\ UNCHANGED trackVars
       \/ CountedTick
       \/ OpenWindow
    /\ win_open' => Pressure'
    /\ UNCHANGED <<sendVars, guiVars>>
WindowSpec == WindowInit /\ [][WindowNext]_vars

BudgetSpecInit ==
    LimiterQuiet /\ BudgetInit /\ RetryInit /\ TrackQuiet /\ SendQuiet
        /\ GuiQuiet
BudgetSpec ==
    BudgetSpecInit /\ [][BudgetNext /\ UNCHANGED <<trackVars, sendVars, guiVars>>]_vars

\* call_openai_api against a remote function of any behaviour.
\* count_tokens over a session that grows message by message.
CountSpecInit ==
    LimiterQuiet /\ BudgetQuiet /\ RetryInit /\ TrackQuiet /\ SendQuiet
        /\ GuiQuiet
CountNext ==
    /\ Len(messages) < MaxMsgs
    /\ \E m \in CountedMessages : AppendMessage(m)
    /\ UNCHANGED <<trackVars, sendVars, guiVars>>
CountSpec == CountSpecInit /\ [][CountNext]_vars

\* send_message called again and again by the one sender.
\* A handler as SendInit builds it, in a window nobody has clicked in.
SendSpecInit == SendInit /\ GuiQuiet
SendSpec ==
    SendSpecInit /\ [][SendNext /\ UNCHANGED <<trackVars, guiVars>>]_vars

\* Sends and new sessions, one after the other.
SessionNext ==
    \/ SendNext
    \/ \E prompt \in BOOLEAN : StartNewSession(prompt)
SessionSpec ==
    SendSpecInit /\ [][SessionNext /\ UNCHANGED <<trackVars, guiVars>>]_vars

\* The window and its handler: clicks, worker threads and their sends.
GuiSpec == SendSpecInit /\ [][GuiNext /\ UNCHANGED trackVars]_vars

RetrySpecInit ==
    LimiterQuiet /\ BudgetQuiet /\ RetryInit /\ TrackQuiet /\ SendQuiet
        /\ GuiQuiet
RetrySpec ==
    RetrySpecInit /\ [][RetryNext /\ UNCHANGED <<trackVars, sendVars, guiVars>>]_vars

(***************************************************************************)
(*                               Claims                                    *)
(***************************************************************************)
InAcquire == {"lock", "refill", "check", "sleep"}

\* The spec's transient errors (timeout, service unavailable, rate-limited by
\* the remote side, retryable API error) and its fatal ones (authentication
\* failure, malformed request, anything unclassified).
TransientErrors ==
    {"Timeout", "ServiceUnavailableError", "RateLimitError", "TryAgain",
     "APIError"}
FatalErrors == Outcomes \ ({"ok"} \cup TransientErrors)

\* C1: in every reachable state of the limiter, whatever the threads and the
\* clock did, 0 <= tokens <= max_calls.
C1_TokensWithinCapacity == 0 <= tokens /\ tokens <= max_calls

\* C1 witness: a token was taken (a thread returned) and a later refill
\* brought the bucket back to its capacity, seen by a thread at its check.
C1_Witness ==
    \E t, u \in Threads :
        /\ t # u
        /\ pc[u] = "done"
        /\ pc[t] = "check"
        /\ max_calls >= 1
        /\ tokens = max_calls

\* C2: acquire() returns only from its critical section, from a state with
\* tokens >= 1, taking exactly one token; with no token it neither returns
\* nor raises: it goes to sleep to retry.
C2_AcquireNeverFails ==
    [][\A t \in Threads :
         /\ (pc[t] # "done" /\ pc'[t] = "done") =>
                /\ pc[t] = "check"
                /\ lock = t
                /\ tokens >= 1
                /\ tokens' = tokens - 1
         /\ (pc[t] = "check" /\ tokens < 1 /\ pc'[t] # pc[t]) =>
                pc'[t] = "sleep"
         /\ pc'[t] # "raised"]_vars

\* C3: with calls arriving no faster than the refill rate, fair scheduling
\* and advancing time, every thread inside acquire() eventually returns.
C3_NoStarvation ==
    \A t \in Threads : (pc[t] \in InAcquire) ~> (pc[t] = "done")

\* C4: a sleeping thread never holds the lock, and whoever holds it while
\* others sleep is a thread running inside the critical section.
C4_NoSleepHoldingLock ==
    \A t \in Threads :
        pc[t] = "sleep" =>
            /\ lock # t
            /\ lock # NoThread => pc[lock] \in {"refill", "check"}

\* C4 witness: one thread sleeps while another is inside the critical section.
C4_Witness ==
    \E t, u \in Threads : pc[t] = "sleep" /\ lock = u /\ pc[u] = "check"

\* C5 as claimed: after manage_token_limit returns, for every session and
\* budget, count_tokens(messages) + max_response_tokens <= max_context_tokens.
C5_BudgetAlwaysMet ==
    mtl_pc = "done" =>
        count_tokens(messages) + max_response_tokens <= max_context_tokens

\* C5 amended: after manage_token_limit returns, the budget is met or at most
\* one message is left in the session.
C5_BudgetMetOrOneLeft ==
    mtl_pc = "done" =>
        \/ count_tokens(messages) + max_response_tokens <= max_context_tokens
        \/ Len(messages) <= 1

\* C5 witness: a call that had to evict twice and returned within the budget
\* with more than one message left.
C5_Witness ==
    /\ mtl_pc = "done"
    /\ evicted >= 2
    /\ Len(messages) >= 2
    /\ count_tokens(messages) + max_response_tokens <= max_context_tokens

\* C6: when manage_token_limit returns, the leading system message (if the
\* session had one) and the most recently appended message are still there.
C6_KeepsSystemAndLatest ==
    (mtl_pc = "done" /\ before # <<>>) =>
        /\ before[1].role = "system" =>
               (messages # <<>> /\ messages[1] = before[1])
        /\ \E i \in 1..Len(messages) : messages[i] = before[Len(before)]

\* C7: every iteration of the loop either leaves it or removes a message,
\* an iteration that starts with at most one message leaves it, and the
\* messages left plus the evictions always add up to the session's length
\* at the call.
C7_LoopTerminates ==
    [][mtl_pc = "loop" =>
         /\ mtl_pc' = "done" \/ Len(messages') < Len(messages)
         /\ Len(messages) <= 1 => mtl_pc' = "done"
         /\ Len(messages) + evicted = Len(before)]_vars

\* C7 witness: a budget that cannot be met (max_response_tokens >=
\* max_context_tokens): the loop evicted down to one message and stopped.
C7_Witness ==
    /\ mtl_pc = "done"
    /\ max_response_tokens >= max_context_tokens
    /\ evicted >= 2
    /\ Len(messages) = 1

\* C8: a second call of manage_token_limit right after the first removes
\* nothing and leaves the session as the first call left it.
C8_Idempotent ==
    (mtl_pc = "done" /\ mtl_calls >= 2) => (messages = before /\ evicted = 0)

\* C8 witness: the second call has returned after a first call that evicted.
C8_Witness ==
    /\ mtl_pc = "done"
    /\ mtl_calls = 2
    /\ session_changed
    /\ Len(messages) >= 1

\* C9: while fewer than MaxAttempts invocations have all failed with
\* transient errors, nothing is surfaced and the next attempt is due; a
\* success after k < MaxAttempts transient failures is returned after
\* exactly k + 1 invocations.
C9_RetriesTransientUntilSuccess ==
    /\ (rstate # "Idle" /\ Len(outcomes) < MaxAttempts
          /\ \A i \in 1..Len(outcomes) : outcomes[i] \in TransientErrors) =>
            /\ rstate = "Attempting"
            /\ raised = "none"
            /\ attempt_number = Len(outcomes) + 1
    /\ rstate = "Succeeded" =>
            /\ response = "response"
            /\ raised = "none"
            /\ Len(outcomes) = attempt_number
            /\ outcomes[Len(outcomes)] = "ok"
            /\ \A i \in 1..(Len(outcomes) - 1) : outcomes[i] \in TransientErrors

\* C9 witness: two transient failures (a remote rate limit among them), then
\* success on the third invocation.
C9_Witness ==
    /\ rstate = "Succeeded"
    /\ outcomes = <<"Timeout", "RateLimitError", "ok">>

\* C10: an invocation that raises a non-transient error is the last one: the
\* error is raised to the caller at once, with no backoff sleep after it (a
\* first invocation that fails so is the only one).
C10_FatalNotRetried ==
    \A i \in 1..Len(outcomes) :
        outcomes[i] \in FatalErrors =>
            /\ i = Len(outcomes)
            /\ rstate = "Exhausted"
            /\ raised = outcomes[i]
            /\ Len(delays) = i - 1

\* C10 witness: the first invocation failed with an authentication error.
C10_Witness ==
    /\ rstate = "Exhausted"
    /\ outcomes = <<"AuthenticationError">>
    /\ delays = <<>>

AllTransient(outs) == \A i \in 1..Len(outs) : outs[i] \in TransientErrors

\* C11: when every attempt fails with a transient error, the function is
\* invoked exactly MaxAttempts times and the caller then gets the error of
\* the last attempt itself.
C11_ExhaustedRaisesLastError ==
    /\ (rstate = "Exhausted" /\ AllTransient(outcomes)) =>
            /\ Len(outcomes) = MaxAttempts
            /\ raised = outcomes[Len(outcomes)]
    /\ (Len(outcomes) = MaxAttempts /\ AllTransient(outcomes)) =>
            /\ rstate = "Exhausted"
            /\ raised = outcomes[MaxAttempts]

\* C11 witness: four timeouts, then a remote rate limit on the last attempt.
C11_Witness ==
    /\ rstate = "Exhausted"
    /\ outcomes = <<"Timeout", "Timeout", "Timeout", "Timeout", "RateLimitError">>
    /\ raised = "RateLimitError"

\* C19: the backoff delays of one call never decrease from one attempt to
\* the next and every delay lies between WaitMin and WaitMax.
C19_DelaysMonotoneAndCapped ==
    /\ \A i \in 1..Len(delays) : WaitMin <= delays[i] /\ delays[i] <= WaitMax
    /\ \A i, j \in 1..Len(delays) : i <= j => delays[i] <= delays[j]

\* C19 witness: all four delays of a call that used every attempt, the last
\* one longer than the first.
C19_Witness ==
    /\ Len(delays) = MaxAttempts - 1
    /\ delays[1] < delays[Len(delays)]

\* C20: the retry state machine only moves Idle -> Attempting, Attempting ->
\* Succeeded, Attempting -> Attempting (a transient failure with attempts
\* left, one backoff delay slept) and Attempting -> Exhausted; the function
\* is invoked only while Attempting, at most MaxAttempts times per call, and
\* a terminal state is left only by a new call, which starts afresh.
C20_RetryStateMachine ==
    [][/\ Len(outcomes') <= MaxAttempts
       /\ (rstate = "Idle" /\ retryVars' # retryVars) =>
              (rstate' = "Attempting" /\ outcomes' = <<>>)
       /\ (rstate \in {"Succeeded", "Exhausted"} /\ retryVars' # retryVars) =>
              (rstate' = "Attempting" /\ outcomes' = <<>> /\ attempt_number' = 1)
       /\ (rstate = "Attempting" /\ retryVars' # retryVars) =>
              /\ Len(outcomes') = Len(outcomes) + 1
              /\ LET o == outcomes'[Len(outcomes')] IN
                   \/ rstate' = "Succeeded" /\ o = "ok"
                   \/ /\ rstate' = "Attempting"
                      /\ o \in TransientErrors
                      /\ Len(outcomes') < MaxAttempts
                      /\ Len(delays') = Len(delays) + 1
                   \/ /\ rstate' = "Exhausted"
                      /\ o \in FatalErrors \/ Len(outcomes') = MaxAttempts
                      /\ delays' = delays]_vars

\* C20 witness: the fifth attempt is due after four transient failures.
C20_Witness ==
    /\ rstate = "Attempting"
    /\ attempt_number = MaxAttempts
    /\ Len(outcomes) = MaxAttempts - 1

\* C15: no RateLimiter with max_calls = 0 exists, so no thread ever gets to
\* compute period / max_calls with a zero divisor.
C15_ZeroCapacityRejected ==
    \A t \in Threads : (pc[t] = "check" /\ tokens < 1) => max_calls # 0

\* C16: from a fresh limiter of capacity N >= 1, a call that reaches its
\* check with no time elapsed, among the first N calls, finds a token (it
\* returns without sleeping); once N calls have returned with no time
\* elapsed the next one finds none (it sleeps); a call sleeps only once, it
\* is back at the earliest period / N after construction and then finds a
\* token; no call raises.
C16_BurstThenOneWait ==
    max_calls >= 1 =>
      \A t \in Threads :
        /\ (pc[t] = "check" /\ depth[t] = 1 /\ win_ticks = 0
              /\ started <= max_calls) => tokens >= 1
        /\ (pc[t] = "check" /\ win_ticks = 0 /\ win_returns = max_calls) =>
              tokens = 0
        /\ pc[t] = "sleep" => depth[t] = 1
        /\ depth[t] = 2 => win_ticks * max_calls >= period
        /\ (pc[t] = "check" /\ depth[t] = 2) => tokens >= 1
        /\ pc[t] # "raised"

\* C16 witness: N calls returned with no time elapsed, and call N + 1 has
\* slept and is back at its check, where it finds a token.
C16_Witness ==
    \E t \in Threads :
        /\ max_calls = MaxCalls
        /\ started = max_calls + 1
        /\ win_returns = max_calls
        /\ pc[t] = "check"
        /\ depth[t] = 2
        /\ tokens >= 1

IsPrefix(a, b) == Len(a) <= Len(b) /\ a = SubSeq(b, 1, Len(a))

\* C12: within one send the steps come in this order: the user message is
\* appended, the session is trimmed, acquire() is called, the remote call
\* is made, and on success the assistant's reply is appended.
C12_SendOrder ==
    /\ IsPrefix(steps,
         <<"append_user", "trim", "acquire", "remote", "append_assistant">>)
    /\ Len(steps) = 5 => rstate = "Succeeded"

\* C12, amended: acquire() comes first; then the user message is appended,
\* the session is trimmed, the remote call is made, and on success the
\* assistant's reply is appended.
C12_SendOrderAcquireFirst ==
    /\ IsPrefix(steps,
         <<"acquire", "append_user", "trim", "remote", "append_assistant">>)
    /\ Len(steps) = 5 => rstate = "Succeeded"

\* C12 witness: a send that went through all five steps and returned the
\* answer.
C12_Witness ==
    /\ send_result = "answer"
    /\ steps = <<"acquire", "append_user", "trim", "remote", "append_assistant">>
    /\ messages[Len(messages)].role = "assistant"

\* C13: when manage_token_limit stops with the budget still exceeded, the
\* send neither aborts nor blocks: its next statement is the remote call,
\* which can be made, on the session as the trimming left it, and nothing
\* is raised out of the send for the budget.
C13_ProceedsOverBudget ==
    /\ [][(/\ send_ix > 0
           /\ mtl_pc = "loop"
           /\ mtl_pc' # "loop"
           /\ count_tokens(messages') + max_response_tokens' > max_context_tokens')
          => (/\ send_ix' > 0
              /\ SendSteps[send_ix'] = "remote"
              /\ send_result' = "none"
              /\ messages' = messages)]_vars
    /\ [](send_result = "raised" => pc[Sender] = "raised")
    /\ []((/\ send_ix > 0
           /\ SendSteps[send_ix] = "remote"
           /\ rstate # "Attempting") => ENABLED SendRemote)

\* C13 witness: the remote call is under way on a one-message session that
\* is over the budget.
C13_Witness ==
    /\ send_ix > 0
    /\ steps = <<"acquire", "append_user", "trim", "remote">>
    /\ rstate = "Attempting"
    /\ Len(messages) = 1
    /\ count_tokens(messages) + max_response_tokens > max_context_tokens

\* C14: whenever manage_token_limit returns, what it hands back tells the
\* caller the number of evicted messages and whether the budget is still
\* exceeded.
C14_CallerToldOfOverBudget ==
    mtl_pc = "done" =>
        ManageReturn(messages, evicted) =
            <<evicted,
              count_tokens(messages) + max_response_tokens > max_context_tokens>>

\* C21: acquire() waits in a loop: a thread never has more than one
\* activation of acquire() on its stack, however often it has to wait.
C21_NoNestedAcquire == \A t \in Threads : depth[t] <= 1

\* The oldest message of a session that is not a system message (0: none).
OldestNonSystem(msgs) ==
    IF \E i \in 1..Len(msgs) : msgs[i].role # "system"
      THEN CHOOSE i \in 1..Len(msgs) :
             /\ msgs[i].role # "system"
             /\ \A j \in 1..(i - 1) : msgs[j].role = "system"
      ELSE 0

\* A list without its i-th element.
Without(msgs, i) == SubSeq(msgs, 1, i - 1) \o SubSeq(msgs, i + 1, Len(msgs))

\* C23: each eviction step of manage_token_limit removes exactly one
\* message, the oldest that is not a system message, with or without a
\* system message at the head, and sets session_changed; the other messages
\* stay as they are.
C23_EvictsOldestNonSystem ==
    [][(mtl_pc = "loop" /\ messages' # messages) =>
         /\ OldestNonSystem(messages) # 0
         /\ messages' = Without(messages, OldestNonSystem(messages))
         /\ session_changed']_vars

\* C24: the refill step of acquire(): with less than one whole token
\* accrued since last_refill, tokens and last_refill stay as they are; with
\* n >= 1 whole tokens accrued, tokens becomes min(max_calls, tokens + n)
\* and last_refill the current time.
C24_LazyRefill ==
    [][\A t \in Threads :
         (pc[t] = "refill" /\ pc'[t] # "refill") =>
            IF elapsed * max_calls < period
              THEN tokens' = tokens /\ elapsed' = elapsed
              ELSE /\ tokens' = IF tokens + (elapsed * max_calls) \div period
                                     < max_calls
                                  THEN tokens + (elapsed * max_calls) \div period
                                  ELSE max_calls
                   /\ elapsed' = 0]_vars

\* C24 witness: a thread that found no token and slept is past its refill
\* step, which added a token and moved last_refill to the current time.
C24_Witness ==
    \E t \in Threads :
        /\ pc[t] = "check"
        /\ depth[t] = 2
        /\ tokens >= 1
        /\ elapsed = 0

\* C25: a send_message with non-empty input takes exactly one token from
\* the limiter, before its first remote attempt, however many attempts the
\* retry wrapper makes: while the call is attempted acquire() is not called
\* and the count of tokens does not change, not even when the call fails.
C25_OneTokenPerSend ==
    /\ [][tokens' < tokens =>
            /\ tokens' = tokens - 1
            /\ send_ix > 0
            /\ pc[Sender] = "check" /\ pc'[Sender] = "done"
            /\ Cardinality({i \in 1..Len(steps) : steps[i] = "acquire"}) = 1
            /\ \A i \in 1..Len(steps) : steps[i] # "remote"]_vars
    /\ [][rstate = "Attempting" => (pc' = pc /\ tokens' = tokens)]_vars
    /\ [](rstate = "Attempting" =>
            /\ pc[Sender] = "done"
            /\ Cardinality({i \in 1..Len(steps) : steps[i] = "acquire"}) = 1)

\* C25 witness: a send that failed after all its attempts; the one token it
\* took is gone.
C25_Witness ==
    /\ send_result = "error"
    /\ Len(outcomes) = MaxAttempts
    /\ tokens = 0
    /\ sends = 1

\* C26: when the remote call has failed, send_message has returned an error
\* text without raising, has appended no assistant message, and the user
\* message it appended is still in the session, as its last message.
C26_FailureKeepsUserMessage ==
    send_result = "error" =>
        /\ rstate = "Exhausted"
        /\ \A i \in 1..Len(steps) : steps[i] # "append_assistant"
        /\ Len(messages) >= 1
        /\ messages[Len(messages)] = [role |-> "user", content |-> send_input]

\* C22: through any sequence of new sessions, sends and trimmings the
\* session has at most one system message, at its head, and its messages
\* stay in arrival order: a step appends one message at the end, removes
\* one message, or starts a new session; it never moves or changes one.
C22_SystemFirstAndOrderKept ==
    /\ [](\A i \in 1..Len(messages) : messages[i].role = "system" => i = 1)
    /\ [][messages' # messages =>
            \/ /\ Len(messages') = Len(messages) + 1
               /\ SubSeq(messages', 1, Len(messages)) = messages
            \/ \E i \in 1..Len(messages) : messages' = Without(messages, i)
            \/ /\ send_ix = 0 /\ send_ix' = 0
               /\ Len(messages') <= 1]_vars

\* C22 witness: a session with its system message at the head after a
\* message was evicted and another appended behind those that remain.
C22_Witness ==
    /\ Len(messages) = 3
    /\ messages[1].role = "system"
    /\ messages[3].role = "user"
    /\ evicted >= 1
    /\ mtl_pc = "done"

\* C27: the GUI keeps at most one send_message in flight: from the click
\* until the worker thread of that message is done the send button is
\* disabled, and no second worker thread is started in between.
C27_OneSendInFlight ==
    /\ workers <= 1
    /\ workers = 1 => ~send_button
    /\ send_ix > 0 => (workers = 1 /\ worker_pc = "sending")

\* C27 witness: the first message's worker is done, with a failure, the
\* button was enabled again and clicked, and the second message's worker is
\* inside send_message with the button disabled.
C27_Witness ==
    /\ sends = 2
    /\ rstate = "Exhausted"
    /\ send_ix > 0
    /\ workers = 1
    /\ ~send_button

============================================================================
